---- MODULE Spec2Model ----
(***************************************************************************)
(* Model of docs/sprints/ledger.py: the sprint ledger command line tool.   *)
(*                                                                         *)
(* Python strings that the program takes apart or builds (file names,      *)
(* command arguments, ledger keys) are sequences of one-character strings. *)
(* A Python dict is an association list <<k, v>> in insertion order.  The  *)
(* ledger file is either absent or the sequence of JSON tokens json.dump   *)
(* wrote; _load parses the tokens back.                                    *)
(***************************************************************************)
EXTENDS Integers, Sequences, FiniteSets, TLC

VARIABLES
    file,    \* ledger.json: NoFile, or the JSON tokens it holds
    clock,   \* the wall clock, in seconds
    dir,     \* the names os.listdir(_HERE) returns
    prev,    \* content of ledger.json when the last command began
    last,    \* the last command run to its end: cmd, arg, exit status, clock readings
    out,     \* the lines the last command printed
    pc,      \* overlapping invocations: position of each process
    req,     \* overlapping invocations: argv of each process
    mem,     \* overlapping invocations: the dict "data" of each process
    res,     \* overlapping invocations: exit status and message of each process
    hist     \* overlapping invocations: the order in which loads and saves hit the file

vars == <<file, clock, dir, prev, last, out, pc, req, mem, res, hist>>

----------------------------------------------------------------------------
(* Bounds of the model *)

MaxClock == 2       \* the clock stops advancing here
MaxMidLen == 2      \* longest text between "SPRINT-" and ".md" in a file name
MaxFiles == 2       \* most files in the directory
MaxArgLen == 4      \* longest sprint number text tried as NNN, in characters

----------------------------------------------------------------------------
(* Strings and integers *)

DigitChars == <<"0", "1", "2", "3", "4", "5", "6", "7", "8", "9">>

IsDigit(c) == \E i \in 1..10 : DigitChars[i] = c

DigitVal(c) == (CHOOSE i \in 1..10 : DigitChars[i] = c) - 1

RECURSIVE DigitsToNat(_)
DigitsToNat(s) ==
    IF s = <<>> THEN 0
    ELSE 10 * DigitsToNat(SubSeq(s, 1, Len(s) - 1)) + DigitVal(s[Len(s)])

AllDigits(s) == Len(s) > 0 /\ \A i \in 1..Len(s) : IsDigit(s[i])

(* int(s): an optional sign, then at least one digit; anything else raises
   ValueError (ok = FALSE). *)
ParseInt(s) ==
    IF AllDigits(s) THEN [ok |-> TRUE, n |-> DigitsToNat(s)]
    ELSE IF Len(s) > 1 /\ s[1] = "-" /\ AllDigits(Tail(s))
         THEN [ok |-> TRUE, n |-> 0 - DigitsToNat(Tail(s))]
    ELSE [ok |-> FALSE, n |-> 0]

RECURSIVE NatToDigits(_)
NatToDigits(n) ==
    IF n < 10 THEN <<DigitChars[n + 1]>>
    ELSE Append(NatToDigits(n \div 10), DigitChars[(n % 10) + 1])

RECURSIVE ZeroPad(_, _)
ZeroPad(s, w) == IF Len(s) >= w THEN s ELSE ZeroPad(<<"0">> \o s, w)

(* Mutant of the key format: "d" instead of "03d". *)
Fmt_Unpadded(n) ==
    IF n < 0 THEN <<"-">> \o NatToDigits(0 - n) ELSE NatToDigits(n)

(* f"{n:03d}": sign first, then the digits zero-padded so that the whole
   text is at least three characters wide. *)
Fmt03d(n) ==
    IF n < 0 THEN <<"-">> \o ZeroPad(NatToDigits(0 - n), 2)
    ELSE ZeroPad(NatToDigits(n), 3)

----------------------------------------------------------------------------
(* Python dicts, in insertion order *)

Has(d, k) == \E i \in 1..Len(d) : d[i][1] = k

Get(d, k, dflt) ==
    IF Has(d, k) THEN d[CHOOSE i \in 1..Len(d) : d[i][1] = k][2] ELSE dflt

Put(d, k, v) ==
    IF Has(d, k)
    THEN [i \in 1..Len(d) |-> IF d[i][1] = k THEN <<k, v>> ELSE d[i]]
    ELSE Append(d, <<k, v>>)

SetDefault(d, k, v) == IF Has(d, k) THEN d ELSE Append(d, <<k, v>>)

EmptyLedger == << <<"sprints", <<>> >> >>

----------------------------------------------------------------------------
(* JSON text: json.dump and json.load *)

NoFile == <<"absent">>

LBrace == <<"{">>
RBrace == <<"}">>
Colon == <<":">>
Comma == <<",">>
Newline == <<"\n">>
Str(x) == <<"str", x>>

(* A value is a Python str (a leaf) or a dict of values, nested `depth` deep. *)
RECURSIVE DumpValue(_, _)
RECURSIVE DumpMembers(_, _, _)
DumpMembers(d, i, depth) ==
    IF i > Len(d) THEN <<>>
    ELSE (IF i > 1 THEN <<Comma>> ELSE <<>>)
         \o <<Str(d[i][1]), Colon>> \o DumpValue(d[i][2], depth - 1)
         \o DumpMembers(d, i + 1, depth)

DumpValue(v, depth) ==
    IF depth = 0 THEN <<Str(v)>>
    ELSE <<LBrace>> \o DumpMembers(v, 1, depth) \o <<RBrace>>

(* json.dump(data, f, indent=2); f.write("\n").  data nests three deep:
   {"sprints": {key: {field: text}}}. *)
JsonDump(data) == DumpValue(data, 3) \o <<Newline>>

(* json.load: recursive descent; returns the value and the next position. *)
RECURSIVE ParseValue(_, _)
RECURSIVE ParseMembers(_, _, _)
ParseMembers(toks, i, acc) ==
    IF toks[i] = RBrace THEN [v |-> acc, next |-> i + 1]
    ELSE LET j == IF toks[i] = Comma THEN i + 1 ELSE i
             k == toks[j][2]
             r == ParseValue(toks, j + 2)
         IN  ParseMembers(toks, r.next, Put(acc, k, r.v))

ParseValue(toks, i) ==
    IF toks[i] = LBrace THEN ParseMembers(toks, i + 1, <<>>)
    ELSE [v |-> toks[i][2], next |-> i + 1]

JsonLoad(toks) == ParseValue(toks, 1).v

----------------------------------------------------------------------------
(* The ledger store *)

(* _save(data): what it writes *)
Save(data) == JsonDump(data)

(* Mutant of _save: the file opened with "a" instead of "w". *)
Saved_Append(f, data) == IF f = NoFile THEN Save(data) ELSE f \o Save(data)

(* Mutant of _save: a file that records a completed sprint is not
   overwritten. *)
Saved_KeepCompleted(f, data) ==
    IF f # NoFile /\ \E i \in 1..Len(f) : f[i] = Str("completed")
    THEN f
    ELSE Save(data)

(* _save(data) over a file holding f: open(_LEDGER, "w") truncates, so the
   file holds what is written and nothing else. *)
Saved(f, data) == Save(data)

(* Mutant of _load: the file is never read. *)
Load_Fresh(f) == << <<"sprints", <<>> >> >>

(* _load() over a file holding f *)
Load(f) == IF f = NoFile THEN EmptyLedger ELSE JsonLoad(f)

(* The text strftime("%Y-%m-%dT%H:%M:%SZ") gives for second t. *)
TS(t) == <<"T", t>>

(* _now() *)
Now(t) == TS(t)

----------------------------------------------------------------------------
(* Discovery *)

Prefix == "SPRINT-"
Suffix == ".md"

(* A file name is <<first part, characters..., last part>>: "SPRINT-" and
   ".md" are kept as single elements, so startswith / endswith look at the
   first and the last element and the slice between them is the middle. *)
Matches(name) == Len(name) >= 2 /\ name[1] = Prefix /\ name[Len(name)] = Suffix

Middle(name) == SubSeq(name, 2, Len(name) - 1)

(* os.listdir: the names in some order *)
RECURSIVE ListDir(_)
ListDir(S) ==
    IF S = {} THEN <<>>
    ELSE LET x == CHOOSE y \in S : TRUE IN <<x>> \o ListDir(S \ {x})

(* the loop of _discover_sprints: nums, in directory order *)
RECURSIVE CollectNums(_)
CollectNums(names) ==
    IF names = <<>> THEN <<>>
    ELSE LET name == Head(names)
             p == ParseInt(Middle(name))
         IN  (IF Matches(name) /\ p.ok THEN <<p.n>> ELSE <<>>)
             \o CollectNums(Tail(names))

RECURSIVE Insert(_, _)
Insert(s, x) ==
    IF s = <<>> THEN <<x>>
    ELSE IF x < Head(s) THEN <<x>> \o s
    ELSE <<Head(s)>> \o Insert(Tail(s), x)

(* sorted(nums) *)
RECURSIVE Sorted(_)
Sorted(s) ==
    IF s = <<>> THEN <<>>
    ELSE Insert(Sorted(SubSeq(s, 1, Len(s) - 1)), s[Len(s)])

(* Mutant of _discover_sprints: the list returned as collected. *)
Discover_Unsorted(S) == CollectNums(ListDir(S))

(* _discover_sprints() *)
Discover(S) == Sorted(CollectNums(ListDir(S)))

----------------------------------------------------------------------------
(* The commands, as functions of the loaded data *)

PyNone == "None"
Dash == <<"-">>

Sprints(data) == Get(data, "sprints", <<>>)

(* entry = data["sprints"].setdefault(key, {}) *)
WithEntry(data, key) == SetDefault(Sprints(data), key, <<>>)

Entry(data, key) == Get(WithEntry(data, key), key, <<>>)

(* Mutants of the guard: no guard at all; a guard on the wrong status. *)
StartRefused_NoGuard(data, key) == FALSE

StartRefused_WrongStatus(data, key) ==
    Get(Entry(data, key), "status", PyNone) = "in_progress"

(* cmd_start: the guard *)
StartRefused(data, key) == Get(Entry(data, key), "status", PyNone) = "completed"

(* Mutant of cmd_start: the sprints dict rebuilt with the one entry. *)
StartData_DropOthers(data, key, now) ==
    LET e1 == Put(Entry(data, key), "status", "in_progress")
        e2 == SetDefault(e1, "started_at", now)
    IN  Put(data, "sprints", << <<key, e2>> >>)

(* Mutants of cmd_start: started_at assigned instead of setdefault; started_at
   never set. *)
StartData_Restamp(data, key, now) ==
    LET e1 == Put(Entry(data, key), "status", "in_progress")
        e2 == Put(e1, "started_at", now)
    IN  Put(data, "sprints", Put(WithEntry(data, key), key, e2))

StartData_NoStamp(data, key, now) ==
    LET e1 == Put(Entry(data, key), "status", "in_progress")
    IN  Put(data, "sprints", Put(WithEntry(data, key), key, e1))

(* cmd_start: data as handed to _save *)
StartData(data, key, now) ==
    LET e1 == Put(Entry(data, key), "status", "in_progress")
        e2 == SetDefault(e1, "started_at", now)
    IN  Put(data, "sprints", Put(WithEntry(data, key), key, e2))

(* Mutant of cmd_complete: the two readings of the clock exchanged. *)
CompleteData_Swapped(data, key, now1, now2) ==
    LET e1 == Put(Entry(data, key), "status", "completed")
        e2 == SetDefault(e1, "started_at", now2)
        e3 == Put(e2, "completed_at", now1)
    IN  Put(data, "sprints", Put(WithEntry(data, key), key, e3))

(* Mutant of cmd_complete: completed_at set with setdefault. *)
CompleteData_KeepCompleted(data, key, now1, now2) ==
    LET e1 == Put(Entry(data, key), "status", "completed")
        e2 == SetDefault(e1, "started_at", now1)
        e3 == SetDefault(e2, "completed_at", now2)
    IN  Put(data, "sprints", Put(WithEntry(data, key), key, e3))

(* Mutants of cmd_complete: started_at assigned instead of setdefault;
   started_at not backfilled. *)
CompleteData_Restamp(data, key, now1, now2) ==
    LET e1 == Put(Entry(data, key), "status", "completed")
        e2 == Put(e1, "started_at", now1)
        e3 == Put(e2, "completed_at", now2)
    IN  Put(data, "sprints", Put(WithEntry(data, key), key, e3))

CompleteData_NoBackfill(data, key, now1, now2) ==
    LET e1 == Put(Entry(data, key), "status", "completed")
        e3 == Put(e1, "completed_at", now2)
    IN  Put(data, "sprints", Put(WithEntry(data, key), key, e3))

(* cmd_complete: data as handed to _save; now1 and now2 are the two _now() *)
CompleteData(data, key, now1, now2) ==
    LET e1 == Put(Entry(data, key), "status", "completed")
        e2 == SetDefault(e1, "started_at", now1)
        e3 == Put(e2, "completed_at", now2)
    IN  Put(data, "sprints", Put(WithEntry(data, key), key, e3))

(* cmd_stats: one printed row *)
StatsRow(sprints_data, n) ==
    LET key == Fmt03d(n)
        entry == Get(sprints_data, key, <<>>)
    IN  <<"row", key, Get(entry, "status", "pending"),
          Get(entry, "started_at", Dash), Get(entry, "completed_at", Dash)>>

(* cmd_stats: everything it prints *)
StatsOutput(data, nums) ==
    IF nums = <<>> THEN << <<"no_sprint_files">> >>
    ELSE << <<"header">>, <<"rule">> >>
         \o [i \in 1..Len(nums) |-> StatsRow(Sprints(data), nums[i])]

----------------------------------------------------------------------------
(* Inputs *)

(* The sprints the commands are run on. *)
SprintSeq == <<1, 2>>

SprintNums == {SprintSeq[i] : i \in 1..Len(SprintSeq)}

(* Arguments NNN given to start and complete: each sprint number written
   with its leading zeros, and the first one also written without them. *)
Args == {Fmt03d(n) : n \in SprintNums} \cup {NatToDigits(SprintSeq[1])}

SprintFile(mid) == <<Prefix>> \o mid \o <<Suffix>>

(* The directory of the sequential runs: one sprint file per sprint number,
   beside the script itself. *)
SprintDir == {SprintFile(Fmt03d(n)) : n \in SprintNums} \cup {<<"ledger", ".py">>}

Procs == {1, 2}

NoCmd == [cmd |-> "none", arg |-> <<>>, exit |-> 0, t1 |-> 0, t2 |-> 0, rep |-> "no"]

Idle ==
    /\ pc = [p \in Procs |-> "idle"]
    /\ req = [p \in Procs |-> <<>>]
    /\ mem = [p \in Procs |-> <<>>]
    /\ res = [p \in Procs |-> <<>>]
    /\ hist = <<>>

(* A fresh checkout: no ledger.json yet, or one holding {"sprints": {}}. *)
Init ==
    /\ file \in {NoFile, Save(EmptyLedger)}
    /\ clock = 1
    /\ dir = SprintDir
    /\ prev = file
    /\ last = NoCmd
    /\ out = <<>>
    /\ Idle

----------------------------------------------------------------------------
(* One invocation run from start to end with nothing else touching the file *)

(* key = f"{int(num):03d}" *)
KeyOf(num) == Fmt03d(ParseInt(num).n)

(* The record of a finished command.  rep tells whether the command run just
   before it was the same command on the same sprint and exited 0, and
   whether the clock has moved on since that one ended. *)
Done(cmd, num, exit, t1, t2) ==
    [cmd |-> cmd, arg |-> num, exit |-> exit, t1 |-> t1, t2 |-> t2,
     rep |-> IF num # <<>> /\ last.cmd = cmd /\ last.exit = 0
                /\ KeyOf(last.arg) = KeyOf(num)
             THEN (IF last.t2 < t1 THEN "later" ELSE "same")
             ELSE "no"]

Tick ==
    /\ clock < MaxClock
    /\ clock' = clock + 1
    /\ UNCHANGED <<file, dir, prev, last, out, pc, req, mem, res, hist>>

(* main: stats *)
RunStats ==
    /\ out' = StatsOutput(Load(file), Discover(dir))
    /\ prev' = file
    /\ last' = Done("stats", <<>>, 0, clock, clock)
    /\ UNCHANGED <<file, clock, dir, pc, req, mem, res, hist>>

(* main: start NNN *)
RunStart(num) ==
    LET key == KeyOf(num)
        data == Load(file)
    IN  /\ ParseInt(num).ok
        /\ prev' = file
        /\ IF StartRefused(data, key)
           THEN /\ out' = << <<"already_completed", key>> >>
                /\ last' = Done("start", num, 1, clock, clock)
                /\ file' = file
           ELSE /\ file' = Saved(file, StartData(data, key, Now(clock)))
                /\ out' = << <<"marked_in_progress", key>> >>
                /\ last' = Done("start", num, 0, clock, clock)
        /\ UNCHANGED <<clock, dir, pc, req, mem, res, hist>>

(* main: complete NNN.  The clock may move on between the two _now() calls. *)
RunComplete(num) ==
    LET key == KeyOf(num)
        data == Load(file)
    IN  /\ ParseInt(num).ok
        /\ \E t \in {clock, clock + 1} :
              /\ t <= MaxClock
              /\ clock' = t
              /\ file' = Saved(file, CompleteData(data, key, Now(clock), Now(t)))
              /\ last' = Done("complete", num, 0, clock, t)
        /\ prev' = file
        /\ out' = << <<"marked_completed", key>> >>
        /\ UNCHANGED <<dir, pc, req, mem, res, hist>>

Next ==
    \/ Tick
    \/ RunStats
    \/ \E num \in Args : RunStart(num)
    \/ \E num \in Args : RunComplete(num)

Spec == Init /\ [][Next]_vars

----------------------------------------------------------------------------
(* Any ledger of the documented shape, as found on disk: each sprint has no
   entry or an entry holding any subset of the three fields, written at
   second 0, before the clock of the run starts. *)

AnyEntries ==
    {a \o b \o c :
        a \in {<<>>, << <<"status", "in_progress">> >>, << <<"status", "completed">> >>},
        b \in {<<>>, << <<"started_at", TS(0)>> >>},
        c \in {<<>>, << <<"completed_at", TS(0)>> >>}}

RECURSIVE SprintsOver(_)
SprintsOver(n) ==
    IF n = 0 THEN {<<>>}
    ELSE {l \o x : l \in SprintsOver(n - 1),
                   x \in {<<>>} \cup {<< <<Fmt03d(SprintSeq[n]), e>> >> : e \in AnyEntries}}

AnyLedgers == {<< <<"sprints", l>> >> : l \in SprintsOver(Len(SprintSeq))}

InitAny ==
    /\ file \in {NoFile} \cup {Save(d) : d \in AnyLedgers}
    /\ clock = 1
    /\ dir = SprintDir
    /\ prev = file
    /\ last = NoCmd
    /\ out = <<>>
    /\ Idle

SpecAny == InitAny /\ [][Next]_vars

----------------------------------------------------------------------------
(* _discover_sprints() on its own, over every small directory *)

MidChars == {"0", "1", "-", "x"}

RECURSIVE StringsUpTo(_)
StringsUpTo(n) ==
    IF n = 0 THEN {<<>>}
    ELSE LET S == StringsUpTo(n - 1)
         IN  S \cup {Append(s, c) : s \in S, c \in MidChars}

(* SPRINT-<mid>.md for every short mid, and names that fail the prefix or
   the suffix test. *)
Names ==
    {SprintFile(m) : m \in StringsUpTo(MaxMidLen)}
        \cup {<<"NOTES-", "1", Suffix>>, <<Prefix, "1", ".txt">>, <<"ledger", ".py">>}

RECURSIVE DirsOf(_, _)
DirsOf(names, k) ==
    IF k = 0 THEN {{}}
    ELSE LET D == DirsOf(names, k - 1)
         IN  D \cup {d \cup {n} : d \in D, n \in names}

InitDiscover ==
    /\ dir \in DirsOf(Names, MaxFiles)
    /\ file = NoFile
    /\ clock = 1
    /\ prev = file
    /\ last = NoCmd
    /\ out = <<>>
    /\ Idle

(* nums = _discover_sprints() *)
CallDiscover ==
    /\ last = NoCmd
    /\ out' = Discover(dir)
    /\ last' = Done("discover", <<>>, 0, clock, clock)
    /\ UNCHANGED <<file, clock, dir, prev, pc, req, mem, res, hist>>

SpecDiscover == InitDiscover /\ [][CallDiscover]_vars

----------------------------------------------------------------------------
(* stats over every small directory and every ledger *)

StatsNames ==
    {SprintFile(Fmt03d(n)) : n \in SprintNums}
        \cup {SprintFile(NatToDigits(n)) : n \in SprintNums}
        \cup {SprintFile(<<"3">>), SprintFile(<<"x">>), <<"ledger", ".py">>}

InitStats ==
    /\ dir \in DirsOf(StatsNames, MaxFiles)
    /\ file \in {NoFile} \cup {Save(d) : d \in AnyLedgers}
    /\ clock = 1
    /\ prev = file
    /\ last = NoCmd
    /\ out = <<>>
    /\ Idle

(* stats run once *)
StatsOnce == last = NoCmd /\ RunStats

SpecStats == InitStats /\ [][StatsOnce]_vars

----------------------------------------------------------------------------
(* _save then _load, and _load alone, over every ledger structure *)

Reverse(l) == [i \in 1..Len(l) |-> l[Len(l) + 1 - i]]

(* Every dict of the shape, with the sprints inserted in either order. *)
ShapedData ==
    AnyLedgers \cup {<< <<"sprints", Reverse(Sprints(d))>> >> : d \in AnyLedgers}

InitRoundTrip ==
    /\ file = NoFile
    /\ \E d \in ShapedData : mem = [p \in Procs |-> d]
    /\ pc = [p \in Procs |-> "idle"]
    /\ req = [p \in Procs |-> <<>>]
    /\ res = [p \in Procs |-> <<>>]
    /\ hist = <<>>
    /\ clock = 1
    /\ dir = SprintDir
    /\ prev = file
    /\ last = NoCmd
    /\ out = <<>>

(* _save(data) *)
CallSave(p) ==
    /\ pc[p] = "idle"
    /\ file' = Saved(file, mem[p])
    /\ pc' = [pc EXCEPT ![p] = "saved"]
    /\ hist' = Append(hist, <<"save", p>>)
    /\ UNCHANGED <<clock, dir, prev, last, out, req, mem, res>>

(* _load(), its result kept in res *)
CallLoad(p) ==
    /\ pc[p] \in {"idle", "saved"}
    /\ res' = [res EXCEPT ![p] = Load(file)]
    /\ pc' = [pc EXCEPT ![p] = "loaded"]
    /\ hist' = Append(hist, <<"load", p>>)
    /\ UNCHANGED <<file, clock, dir, prev, last, out, req, mem>>

NextRoundTrip == CallSave(1) \/ CallLoad(1)

SpecRoundTrip == InitRoundTrip /\ [][NextRoundTrip]_vars

----------------------------------------------------------------------------
(* Two invocations of start / complete that overlap on the same ledger.json:
   each loads, updates its own dict, and saves, with nothing that keeps the
   other out in between. *)

(* data = _load() *)
PLoad(p, cmd, num) ==
    /\ pc[p] = "idle"
    /\ req' = [req EXCEPT ![p] = <<cmd, num>>]
    /\ mem' = [mem EXCEPT ![p] = Load(file)]
    /\ pc' = [pc EXCEPT ![p] = "loaded"]
    /\ hist' = Append(hist, <<"load", p>>)
    /\ UNCHANGED <<file, clock, dir, prev, last, out, res>>

(* cmd_start between _load and _save: the guard and the update of data *)
PStart(p) ==
    LET key == KeyOf(req[p][2]) IN
    /\ pc[p] = "loaded"
    /\ req[p][1] = "start"
    /\ IF StartRefused(mem[p], key)
       THEN /\ mem' = [mem EXCEPT ![p] = Put(mem[p], "sprints", WithEntry(mem[p], key))]
            /\ res' = [res EXCEPT ![p] = <<1, "already_completed">>]
            /\ pc' = [pc EXCEPT ![p] = "done"]
       ELSE /\ mem' = [mem EXCEPT ![p] = StartData(mem[p], key, Now(clock))]
            /\ pc' = [pc EXCEPT ![p] = "updated"]
            /\ res' = res
    /\ UNCHANGED <<file, clock, dir, prev, last, out, req, hist>>

(* cmd_complete between _load and _save *)
PComplete(p) ==
    LET key == KeyOf(req[p][2]) IN
    /\ pc[p] = "loaded"
    /\ req[p][1] = "complete"
    /\ \E t \in {clock, clock + 1} :
          /\ t <= MaxClock
          /\ clock' = t
          /\ mem' = [mem EXCEPT ![p] = CompleteData(mem[p], key, Now(clock), Now(t))]
    /\ pc' = [pc EXCEPT ![p] = "updated"]
    /\ UNCHANGED <<file, dir, prev, last, out, req, res, hist>>

(* _save(data) and the message printed after it *)
PSave(p) ==
    /\ pc[p] = "updated"
    /\ file' = Saved(file, mem[p])
    /\ res' = [res EXCEPT ![p] = <<0, IF req[p][1] = "start" THEN "marked_in_progress"
                                      ELSE "marked_completed">>]
    /\ pc' = [pc EXCEPT ![p] = "done"]
    /\ hist' = Append(hist, <<"save", p>>)
    /\ UNCHANGED <<clock, dir, prev, last, out, req, mem>>

NextOverlap ==
    \/ Tick
    \/ \E p \in Procs, cmd \in {"start", "complete"}, num \in Args : PLoad(p, cmd, num)
    \/ \E p \in Procs : PStart(p)
    \/ \E p \in Procs : PComplete(p)
    \/ \E p \in Procs : PSave(p)

SpecOverlap == Init /\ [][NextOverlap]_vars

----------------------------------------------------------------------------
(* main(): the branches that end before cmd_start or cmd_complete is called *)

(* Mutant of main: the final else runs stats instead of reporting the
   unknown command. *)
Dispatch_UnknownIsStats(argv) ==
    IF argv = <<>> THEN "no_command"
    ELSE IF argv[1] = "start" THEN (IF Len(argv) < 2 THEN "missing_arg" ELSE "start")
    ELSE IF argv[1] = "complete" THEN (IF Len(argv) < 2 THEN "missing_arg" ELSE "complete")
    ELSE "stats"

(* main: the branch taken for sys.argv[1:] = argv *)
Dispatch(argv) ==
    IF argv = <<>> THEN "no_command"
    ELSE IF argv[1] = "stats" THEN "stats"
    ELSE IF argv[1] = "start" THEN (IF Len(argv) < 2 THEN "missing_arg" ELSE "start")
    ELSE IF argv[1] = "complete" THEN (IF Len(argv) < 2 THEN "missing_arg" ELSE "complete")
    ELSE "unknown"

(* Command lines that never reach cmd_start or cmd_complete. *)
Argvs ==
    {<<>>, <<"stats">>, <<"stats", "extra">>, <<"start">>, <<"complete">>,
     <<"list">>, <<"reset", "001">>}

(* main: print(usage); sys.exit(1) *)
MainUsage(argv) ==
    /\ Dispatch(argv) \in {"no_command", "missing_arg", "unknown"}
    /\ out' = << <<Dispatch(argv)>> >>
    /\ prev' = file
    /\ last' = [cmd |-> "usage", arg |-> argv, exit |-> 1,
                t1 |-> clock, t2 |-> clock, rep |-> "no"]
    /\ UNCHANGED <<file, clock, dir, pc, req, mem, res, hist>>

(* main: cmd_stats(), then the end of main *)
MainStats(argv) ==
    /\ Dispatch(argv) = "stats"
    /\ out' = StatsOutput(Load(file), Discover(dir))
    /\ prev' = file
    /\ last' = [cmd |-> "stats", arg |-> argv, exit |-> 0,
                t1 |-> clock, t2 |-> clock, rep |-> "no"]
    /\ UNCHANGED <<file, clock, dir, pc, req, mem, res, hist>>

NextMain ==
    \/ \E argv \in Argvs : MainUsage(argv)
    \/ \E argv \in Argvs : MainStats(argv)

SpecMain == InitStats /\ [][NextMain]_vars

----------------------------------------------------------------------------
(* One start or complete on a fresh ledger, for every NNN that int() accepts,
   then stats in a directory holding one sprint file *)

KeyChars == {"0", "1", "-"}

RECURSIVE StringsOver(_, _)
StringsOver(chars, n) ==
    IF n = 0 THEN {<<>>}
    ELSE LET S == StringsOver(chars, n - 1)
         IN  S \cup {Append(s, c) : s \in S, c \in chars}

KeyArgs == {s \in StringsOver(KeyChars, MaxArgLen) : ParseInt(s).ok}

InitKeys ==
    /\ file = NoFile
    /\ clock = 1
    /\ dir \in {{SprintFile(m)} : m \in KeyArgs}
    /\ prev = file
    /\ last = NoCmd
    /\ out = <<>>
    /\ Idle

NextKeys ==
    \/ last = NoCmd /\ \E num \in KeyArgs : RunStart(num)
    \/ last = NoCmd /\ \E num \in KeyArgs : RunComplete(num)
    \/ last.cmd \in {"start", "complete"} /\ RunStats

SpecKeys == InitKeys /\ [][NextKeys]_vars

----------------------------------------------------------------------------
(* What is persisted, read back from the file *)

SprintKeys == {Fmt03d(n) : n \in SprintNums}

PSprints(f) == Sprints(Load(f))

PHas(f, key) == Has(PSprints(f), key)

PEntry(f, key) == Get(PSprints(f), key, <<>>)

PStatus(f, key) == Get(PEntry(f, key), "status", "pending")

LastKey == KeyOf(last.arg)

Ran(cmd) == last.cmd = cmd

----------------------------------------------------------------------------
(* C1: start K on a sprint whose persisted status is 'completed' exits with
   status 1 and leaves the persisted ledger exactly as it was. *)
C1_StartCompletedRejected ==
    (Ran("start") /\ PStatus(prev, LastKey) = "completed")
        => (last.exit = 1 /\ file = prev)

C1_Witness ==
    /\ Ran("start")
    /\ PStatus(prev, LastKey) = "completed"
    /\ last.exit = 1
    /\ PHas(prev, Fmt03d(SprintSeq[2]))

(* C2: from an empty ledger, a sprint's status only moves pending ->
   in_progress, pending -> completed, in_progress -> completed, or stays;
   once 'completed' it is 'completed' in every later state. *)
StatusMoves ==
    {<<"pending", "in_progress">>, <<"pending", "completed">>,
     <<"in_progress", "completed">>}

C2_StatusOneWay ==
    [][\A k \in SprintKeys :
          \/ PStatus(file', k) = PStatus(file, k)
          \/ <<PStatus(file, k), PStatus(file', k)>> \in StatusMoves]_vars

C2_Witness ==
    /\ Ran("start")
    /\ last.exit = 1
    /\ PStatus(file, LastKey) = "completed"
    /\ \E k \in SprintKeys : PStatus(file, k) = "in_progress"

(* A sprint is pending when it has no entry or an entry without a status. *)
Pending(f, key) == ~Has(PEntry(f, key), "status")

NoCompletedAdded(key) ==
    Has(PEntry(file, key), "completed_at")
        => /\ Has(PEntry(prev, key), "completed_at")
           /\ Get(PEntry(file, key), "completed_at", Dash)
                = Get(PEntry(prev, key), "completed_at", Dash)

(* C3, as claimed: start K on a pending sprint exits normally and leaves K
   with status 'in_progress', started_at equal to the time of that command,
   and no completed_at added. *)
C3_StartPendingStampsNow ==
    (Ran("start") /\ Pending(prev, LastKey))
        => /\ last.exit = 0
           /\ PStatus(file, LastKey) = "in_progress"
           /\ Get(PEntry(file, LastKey), "started_at", Dash) = Now(last.t1)
           /\ NoCompletedAdded(LastKey)

(* C3, amended: start K on a pending sprint exits normally and leaves K with
   status 'in_progress', no completed_at added, and started_at equal to the
   time of that command when the entry had no started_at, and equal to the
   started_at the entry already had otherwise. *)
C3_StartPendingStamps ==
    (Ran("start") /\ Pending(prev, LastKey))
        => /\ last.exit = 0
           /\ PStatus(file, LastKey) = "in_progress"
           /\ Get(PEntry(file, LastKey), "started_at", Dash)
                = Get(PEntry(prev, LastKey), "started_at", Now(last.t1))
           /\ NoCompletedAdded(LastKey)

C3_Witness ==
    /\ Ran("start")
    /\ ~PHas(prev, LastKey)
    /\ last.t1 = MaxClock
    /\ PStatus(file, LastKey) = "in_progress"
    /\ Get(PEntry(file, LastKey), "started_at", Dash) = Now(MaxClock)

(* C4: complete K on a sprint that is not 'completed' exits normally and
   leaves K with status 'completed', completed_at equal to the time of that
   command (its second clock reading), and started_at equal to its previous
   value if it had one, otherwise to the time of that command (its first
   clock reading). *)
C4_CompleteStamps ==
    (Ran("complete") /\ PStatus(prev, LastKey) # "completed")
        => /\ last.exit = 0
           /\ PStatus(file, LastKey) = "completed"
           /\ Get(PEntry(file, LastKey), "completed_at", Dash) = Now(last.t2)
           /\ Get(PEntry(file, LastKey), "started_at", Dash)
                = Get(PEntry(prev, LastKey), "started_at", Now(last.t1))

C4_Witness ==
    /\ Ran("complete")
    /\ PStatus(prev, LastKey) # "completed"
    /\ ~Has(PEntry(prev, LastKey), "started_at")
    /\ last.t1 < last.t2
    /\ Get(PEntry(file, LastKey), "started_at", Dash) = Now(last.t1)

(* C5: start is idempotent on sprints that are not 'completed': start K
   exits normally, and a second start K run right after it, also with the
   clock advanced, exits normally and leaves the persisted ledger exactly as
   the first run left it. *)
C5_StartIdempotent ==
    /\ (Ran("start") /\ PStatus(prev, LastKey) # "completed") => last.exit = 0
    /\ (Ran("start") /\ last.rep # "no") => (last.exit = 0 /\ file = prev)

C5_Witness ==
    /\ Ran("start")
    /\ last.rep = "later"
    /\ last.exit = 0
    /\ file = prev

(* C6: started_at is set by the first start or complete applied to a sprint
   and never changes afterwards: every entry has a started_at, and an entry
   that has one keeps that value in every later state. *)
C6_StartedAtKept ==
    [][\A k \in SprintKeys :
          /\ PHas(file', k) => Has(PEntry(file', k), "started_at")
          /\ Has(PEntry(file, k), "started_at")
                => /\ Has(PEntry(file', k), "started_at")
                   /\ Get(PEntry(file', k), "started_at", Dash)
                        = Get(PEntry(file, k), "started_at", Dash)]_vars

C6_Witness ==
    /\ Ran("complete")
    /\ PStatus(prev, LastKey) = "in_progress"
    /\ Has(PEntry(prev, LastKey), "started_at")
    /\ Get(PEntry(file, LastKey), "started_at", Dash) # Now(last.t1)

(* The files of the directory that discovery takes for sprint files, and the
   number each embeds. *)
SprintFilesIn(S) == {name \in S : Matches(name) /\ ParseInt(Middle(name)).ok}

NumOf(name) == ParseInt(Middle(name)).n

Rows == IF Len(out) >= 2 /\ out[1] = <<"header">> THEN SubSeq(out, 3, Len(out)) ELSE <<>>

(* C7: stats prints exactly one row per discovered SPRINT-NNN.md file (as
   many rows with a key as there are files embedding that number, and no
   other row), in ascending numeric order; a discovered sprint with no
   ledger entry is shown as 'pending' with '-' for both timestamps. *)
C7_StatsRows ==
    Ran("stats") =>
        /\ Len(Rows) = Cardinality(SprintFilesIn(dir))
        /\ \A i \in 1..Len(Rows) :
              /\ Rows[i][1] = "row"
              /\ Cardinality({j \in 1..Len(Rows) : Rows[j][2] = Rows[i][2]})
                   = Cardinality({f \in SprintFilesIn(dir) : Fmt03d(NumOf(f)) = Rows[i][2]})
              /\ ~PHas(file, Rows[i][2])
                   => Rows[i] = <<"row", Rows[i][2], "pending", Dash, Dash>>
        /\ \A i, j \in 1..Len(Rows) :
              i < j => ParseInt(Rows[i][2]).n <= ParseInt(Rows[j][2]).n

C7_Witness ==
    /\ Ran("stats")
    /\ Len(Rows) = MaxFiles
    /\ ParseInt(Rows[1][2]).n < ParseInt(Rows[Len(Rows)][2]).n
    /\ ~PHas(file, Rows[1][2])
    /\ \E k \in SprintKeys : PHas(file, k) /\ \A i \in 1..Len(Rows) : Rows[i][2] # k

(* C8: the list _discover_sprints returns is in ascending order, holds no ID
   twice, and holds exactly the integers embedded in the SPRINT-<n>.md
   names. *)
C8_DiscoverSortedUnique ==
    Ran("discover") =>
        /\ \A i, j \in 1..Len(out) : i < j => out[i] < out[j]
        /\ {out[i] : i \in 1..Len(out)} = {NumOf(f) : f \in SprintFilesIn(dir)}

(* C9: _save(data) followed by _load() returns a structure identical to
   data, for every data of the ledger's shape; _load() with no ledger file
   returns {"sprints": {}} and creates no file. *)
C9_RoundTrip ==
    /\ (pc[1] = "loaded" /\ Len(hist) = 2) => (res[1] = mem[1] /\ file = Save(mem[1]))
    /\ (pc[1] = "loaded" /\ Len(hist) = 1) => (res[1] = EmptyLedger /\ file = NoFile)

C9_Witness ==
    /\ pc[1] = "loaded"
    /\ Len(hist) = 2
    /\ Len(Sprints(res[1])) = Len(SprintSeq)
    /\ Sprints(res[1])[1][1] = Fmt03d(SprintSeq[Len(SprintSeq)])
    /\ Len(Sprints(res[1])[1][2]) > 2

(* Two overlapped invocations, both ended with exit status 0, on different
   sprints, both having loaded before either saved. *)
BothSucceeded == \A p \in Procs : pc[p] = "done" /\ res[p][1] = 0

LoadedBeforeSaved ==
    /\ Len(hist) = 4
    /\ hist[1][1] = "load"
    /\ hist[2][1] = "load"

LastSaver == hist[Len(hist)][2]

FirstSaver == CHOOSE p \in Procs : p # LastSaver

KeyOfProc(p) == KeyOf(req[p][2])

LostUpdateCase ==
    /\ BothSucceeded
    /\ LoadedBeforeSaved
    /\ KeyOfProc(1) # KeyOfProc(2)

(* C10: when two start/complete invocations on different sprints both load
   before either saves and both report success, the persisted ledger is
   what the invocation that saved last wrote: its update is there and the
   entry of the other invocation's sprint is as it was before either ran. *)
C10_LastWriteWins ==
    LostUpdateCase =>
        /\ file = Save(mem[LastSaver])
        /\ PEntry(file, KeyOfProc(LastSaver)) = Entry(mem[LastSaver], KeyOfProc(LastSaver))
        /\ PStatus(file, KeyOfProc(LastSaver)) \in {"in_progress", "completed"}
        /\ PHas(file, KeyOfProc(FirstSaver)) = PHas(prev, KeyOfProc(FirstSaver))
        /\ PEntry(file, KeyOfProc(FirstSaver)) = PEntry(prev, KeyOfProc(FirstSaver))

C10_Witness ==
    /\ LostUpdateCase
    /\ PHas(file, KeyOfProc(LastSaver))
    /\ ~PHas(file, KeyOfProc(FirstSaver))
    /\ PHas(Save(mem[FirstSaver]), KeyOfProc(FirstSaver))

(* Command lines with no command, an unknown command, or start / complete
   without NNN. *)
BadArgv(a) ==
    \/ a = <<>>
    \/ a[1] \notin {"stats", "start", "complete"}
    \/ (a[1] \in {"start", "complete"} /\ Len(a) < 2)

(* C11: an invocation with no command, an unknown command, or start or
   complete without its NNN exits with status 1 and leaves the persisted
   ledger unchanged; stats always exits 0 and leaves it unchanged, also
   when no sprint files are found. *)
C11_UsageAndStatsExit ==
    last.cmd # "none" =>
        /\ BadArgv(last.arg) => (last.cmd = "usage" /\ last.exit = 1 /\ file = prev)
        /\ (last.arg # <<>> /\ last.arg[1] = "stats")
              => (last.cmd = "stats" /\ last.exit = 0 /\ file = prev)
        /\ (last.cmd = "stats" /\ SprintFilesIn(dir) = {})
              => out = << <<"no_sprint_files">> >>

C11_Witness ==
    /\ last.cmd = "usage"
    /\ last.arg = <<"start">>
    /\ last.exit = 1
    /\ \E k \in SprintKeys : PHas(file, k)

(* The keys of the persisted entries. *)
PKeys(f) == {PSprints(f)[i][1] : i \in 1..Len(PSprints(f))}

RanUpdate == Ran("start") \/ Ran("complete")

(* C12, as claimed: every key that start or complete writes is exactly
   three digit characters, for every argument that parses as an integer. *)
C12_KeysThreeDigits ==
    RanUpdate => \A k \in PKeys(file) : Len(k) = 3 /\ AllDigits(k)

(* C12, amended: the key that start or complete writes is the sprint number
   zero-padded to at least three characters: it reads back as the integer of
   the argument, is exactly three digits for 0..999, and carries no padding
   when longer than three characters (a negative number keeps its sign);
   arguments denoting the same integer address the same entry (the NNN of
   the sprint file in the directory, given as argument, gives this key
   exactly when it denotes the same integer), and stats shows that entry in
   the row of a discovered file embedding the integer. *)
C12_KeysZeroPadded ==
    /\ RanUpdate =>
          /\ PKeys(file) = {LastKey}
          /\ ParseInt(LastKey).ok
          /\ ParseInt(LastKey).n = ParseInt(last.arg).n
          /\ Len(LastKey) >= 3
          /\ ParseInt(last.arg).n \in 0..999 => (Len(LastKey) = 3 /\ AllDigits(LastKey))
          /\ Len(LastKey) > 3 =>
                (LastKey[1] # "0" /\ (LastKey[1] = "-" => LastKey[2] # "0"))
          /\ \A f \in dir :
                ParseInt(Middle(f)).n = ParseInt(last.arg).n
                    <=> KeyOf(Middle(f)) = LastKey
    /\ (Ran("stats") /\ Len(PSprints(file)) = 1) =>
          \A f \in dir :
             ParseInt(Middle(f)).n = ParseInt(PSprints(file)[1][1]).n
                => /\ Len(Rows) = 1
                   /\ Rows[1][2] = PSprints(file)[1][1]
                   /\ Rows[1][3] = PStatus(file, PSprints(file)[1][1])
                   /\ Rows[1][3] \in {"in_progress", "completed"}

C12_Witness ==
    /\ Ran("stats")
    /\ Len(Rows) = 1
    /\ Rows[1][3] = "completed"
    /\ SprintFile(<<"1">>) \in dir
    /\ PKeys(file) = {<<"0", "0", "1">>}

(* C13, as claimed: complete is unguarded: complete K always exits normally
   and leaves K 'completed' with completed_at equal to the time of this
   command; on a K that was already 'completed' the status stays
   'completed', started_at is unchanged and completed_at is replaced. *)
C13_CompleteKeepsStartedAt ==
    Ran("complete") =>
        /\ last.exit = 0
        /\ PStatus(file, LastKey) = "completed"
        /\ Get(PEntry(file, LastKey), "completed_at", Dash) = Now(last.t2)
        /\ PStatus(prev, LastKey) = "completed" =>
              /\ Has(PEntry(file, LastKey), "started_at")
                   = Has(PEntry(prev, LastKey), "started_at")
              /\ Get(PEntry(file, LastKey), "started_at", Dash)
                   = Get(PEntry(prev, LastKey), "started_at", Dash)

(* C13, amended: as claimed, except that on a K that was already
   'completed' started_at is unchanged when the entry has one, and is set to
   the time of this command when it has none. *)
C13_CompleteUnguarded ==
    Ran("complete") =>
        /\ last.exit = 0
        /\ PStatus(file, LastKey) = "completed"
        /\ Get(PEntry(file, LastKey), "completed_at", Dash) = Now(last.t2)
        /\ PStatus(prev, LastKey) = "completed" =>
              /\ Has(PEntry(file, LastKey), "started_at")
              /\ Get(PEntry(file, LastKey), "started_at", Dash)
                   = Get(PEntry(prev, LastKey), "started_at", Now(last.t1))

(* complete K run again later on a completed K: the persisted ledger differs *)
C13_Witness ==
    /\ Ran("complete")
    /\ last.rep = "later"
    /\ PStatus(prev, LastKey) = "completed"
    /\ Get(PEntry(prev, LastKey), "completed_at", Dash) # Get(PEntry(file, LastKey), "completed_at", Dash)
    /\ file # prev

(* Position of an event in the order of loads and saves. *)
At(e) == CHOOSE i \in 1..Len(hist) : hist[i] = e

Happened(e) == \E i \in 1..Len(hist) : hist[i] = e

(* start K by s overlapped with complete K by c: s loaded before c saved,
   and saved after it; both ended with exit status 0. *)
ReopenCase(s, c) ==
    /\ s # c
    /\ BothSucceeded
    /\ req[s][1] = "start"
    /\ req[c][1] = "complete"
    /\ KeyOfProc(s) = KeyOfProc(c)
    /\ Happened(<<"save", s>>)
    /\ Happened(<<"save", c>>)
    /\ At(<<"load", s>>) < At(<<"save", c>>)
    /\ At(<<"save", c>>) < At(<<"save", s>>)

(* C14: the guard does not hold across overlapping invocations: when
   start K loads before a concurrent complete K saves and saves after it,
   both report success, the ledger complete K persisted had K 'completed',
   and the ledger persisted in the end has K 'in_progress' with no
   completed_at. *)
C14_OverlapReopens ==
    \A s, c \in Procs :
        ReopenCase(s, c) =>
            /\ PStatus(Save(mem[c]), KeyOfProc(c)) = "completed"
            /\ Has(PEntry(Save(mem[c]), KeyOfProc(c)), "completed_at")
            /\ file = Save(mem[s])
            /\ PStatus(file, KeyOfProc(s)) = "in_progress"
            /\ ~Has(PEntry(file, KeyOfProc(s)), "completed_at")

C14_Witness ==
    \E s, c \in Procs :
        /\ ReopenCase(s, c)
        /\ PStatus(file, KeyOfProc(s)) = "in_progress"
        /\ PStatus(Save(mem[c]), KeyOfProc(s)) = "completed"

(* A well-formed persisted entry. *)
WellFormed(e) ==
    /\ Get(e, "status", PyNone) \in {"in_progress", "completed"}
    /\ Has(e, "started_at")
    /\ Get(e, "status", PyNone) = "in_progress" => ~Has(e, "completed_at")
    /\ Get(e, "status", PyNone) = "completed" => Has(e, "completed_at")

(* C15: from an empty or absent ledger, after any sequence of stats, start
   and complete run one after another, every persisted entry has status
   in_progress or completed; an in_progress entry has started_at and no
   completed_at, a completed entry has both; no persisted entry is empty or
   without a status, also after a rejected start. *)
C15_EntriesWellFormed ==
    \A k \in PKeys(file) :
        /\ PEntry(file, k) # <<>>
        /\ WellFormed(PEntry(file, k))

C15_Witness ==
    /\ Ran("start")
    /\ last.exit = 1
    /\ \E k \in PKeys(file) : PStatus(file, k) = "in_progress"
    /\ \E k \in PKeys(file) : PStatus(file, k) = "completed"

(* C16: start K and complete K change at most the entry for K: every other
   key has afterwards the entry it had before, and no entry is removed;
   stats leaves the ledger file as it was, absent if it was absent. *)
C16_Frame ==
    /\ RanUpdate =>
          /\ PKeys(prev) \subseteq PKeys(file)
          /\ PKeys(file) \subseteq PKeys(prev) \cup {LastKey}
          /\ \A k \in PKeys(prev) \ {LastKey} : PEntry(file, k) = PEntry(prev, k)
    /\ Ran("stats") => file = prev

C16_Witness ==
    /\ RanUpdate
    /\ last.exit = 0
    /\ file # prev
    /\ \E k \in PKeys(prev) : k # LastKey /\ PEntry(prev, k) # <<>>

(* stats has run where there was no ledger file. *)
C16_StatsWitness == Ran("stats") /\ prev = NoFile

(* The second a timestamp text stands for; the format is fixed-width, so
   the order of the texts is the order of the seconds. *)
SecondOf(ts) == ts[2]

(* C17: with a clock that never goes back, from an empty ledger, every
   entry that has both timestamps has started_at <= completed_at, also for
   a sprint completed without being started and for a sprint completed more
   than once. *)
C17_StartedBeforeCompleted ==
    \A k \in PKeys(file) :
        (Has(PEntry(file, k), "started_at") /\ Has(PEntry(file, k), "completed_at")) =>
            SecondOf(Get(PEntry(file, k), "started_at", Dash))
                <= SecondOf(Get(PEntry(file, k), "completed_at", Dash))

(* A sprint completed without being started, the clock moving between the
   two readings. *)
C17_Witness ==
    /\ Ran("complete")
    /\ ~PHas(prev, LastKey)
    /\ last.t1 < last.t2
    /\ Get(PEntry(file, LastKey), "started_at", Dash) = Now(last.t1)
    /\ Get(PEntry(file, LastKey), "completed_at", Dash) = Now(last.t2)

(* A sprint completed a second time, later than the first. *)
C17_AgainWitness ==
    /\ Ran("complete")
    /\ PStatus(prev, LastKey) = "completed"
    /\ Get(PEntry(prev, LastKey), "completed_at", Dash) # Now(last.t2)
    /\ Get(PEntry(file, LastKey), "completed_at", Dash) = Now(last.t2)

====
